---- MODULE Spec2Model ----
(***************************************************************************)
(* Model of the CPC-based NCP link of the OpenThread port:                 *)
(*   src/src/ncp/ncp_cpc.cpp            the send task, the write-done and  *)
(*                                      receive-done hooks of NcpCPC       *)
(*   src/examples/platforms/utils/soft_source_match_table.c                *)
(*                                      the software source-match tables   *)
(* Spinel::Buffer (the transmit FrameBuffer) and Tasklet are not among the *)
(* sources, and CpcInterface (src/src/posix/platform/cpc_interface.hpp) is *)
(* declared without its bodies; they are modelled from the written         *)
(* specification and the declarations.                                     *)
(*                                                                         *)
(* The specifications share the variables:                                 *)
(*   SendSpec (and FairSendSpec)  Add / SendTask run / write completion    *)
(*   RecvSpec                     the receive poll of NcpCPC               *)
(*   SrcMatchSpec                 the source-match tables                  *)
(*   BufferSpec                   the FrameBuffer's calls one by one       *)
(*   TransportSpec                Init / Deinit / SendFrame / WaitForFrame *)
(***************************************************************************)
EXTENDS Integers, Sequences, FiniteSets, TLC

\* ------------------------------------------------------------------ bounds

\* Number of Add calls the upper layer makes in a run of the send model.
MaxAdds == 2

\* Byte capacity of the transmit FrameBuffer.
TxBufferSize == 270

\* Number of payloads the peer delivers in a run of the receive model.
MaxArrivals == 3

\* Interface instances (RADIO_CONFIG_SRC_MATCH_PANID_NUM) and the capacities
\* of the short and extended tables (RADIO_CONFIG_SRC_MATCH_*_ENTRY_NUM).
PanIdNum == 2

ShortEntryNum == 2

ExtEntryNum == 2

\* Number of table operations in a run of the source-match model.
MaxTableOps == 4

\* Number of CpcInterface calls in a run of the transport model.
MaxTransportOps == 4

\* kMaxWaitTime, in milliseconds.
kMaxWaitTime == 2000

\* ------------------------------------------------------------ send: state

VARIABLES
    mTxFrameBuffer,   \* [high, low: Seq of frames; cur: read direction]
    mCpcSendTask,     \* number of pending activations of the send tasklet
    txBufs,           \* transfer buffers malloc'ed by SendToCPC, by handle
    cpcTxQueue,       \* handles of writes accepted by CPC, completion pending
    runLog,           \* one record per SendToCPC run that returned
    appended,         \* frames accepted by Add, by tag
    nAdds,            \* Add calls made so far
    frameAddedCalls,  \* invocations of the frame-added callback
    crashed,          \* the run dereferenced a NULL transfer buffer and faulted
    lastOp            \* the operation that produced this state

sendVars == <<mTxFrameBuffer, mCpcSendTask, txBufs, cpcTxQueue, runLog,
              appended, nAdds, frameAddedCalls, crashed, lastOp>>

\* --------------------------------------------------------- receive: state

VARIABLES
    cpcRxQueue,   \* payloads arrived at the CPC endpoint, not yet read
    rxBufs,       \* receive buffers sl_cpc_read handed out, by handle
    rxPc,         \* position of HandleCPCReceiveDone: idle / handle / free
    rxData,       \* its local `data`: handle of the buffer read, or NULL
    rxLength,     \* its local `dataLength`
    handled,      \* invocations of HandleReceive: buffer, bytes, length
    nArrivals,    \* payloads delivered by the peer so far
    rxLast,       \* the step that produced this state
    rxKinds       \* per arrival: a "whole" frame, or its "first" or "last" chunk

recvVars == <<cpcRxQueue, rxBufs, rxPc, rxData, rxLength, handled, nArrivals,
              rxLast, rxKinds>>

\* ---------------------------------------------------- source match: state

VARIABLES
    sPanId,              \* PAN ID of each interface instance
    srcMatchShortEntry,  \* [iid][slot] -> [checksum, allocated]
    srcMatchExtEntry,    \* [iid][slot] -> [checksum, allocated]
    shortRowView,        \* how the build resolves srcMatchShortEntry[i]
    smOps,               \* table operations performed so far
    smLast,              \* the last table operation, its argument and result
    shortHeld,           \* [iid][slot] -> the short address added there, if any
    extHeld              \* [iid][slot] -> the extended address added there, if any

smVars == <<sPanId, srcMatchShortEntry, srcMatchExtEntry, shortRowView, smOps,
            smLast, shortHeld, extHeld>>

\* The NULL pointer, as a transfer-buffer handle.
\* The FrameBuffer's dequeue interface driven call by call (history of the
\* calls, for the claims about Begin/Read/Remove).
VARIABLES
    bufLast,             \* the last FrameBuffer call and what it returned
    bufSel,              \* tag selected by the first Begin since the last Remove, or 0
    bufRemoved           \* tags of the frames removed so far

bufVars == <<bufLast, bufSel, bufRemoved>>

\* CpcInterface (the host's side of the link).
VARIABLES
    mEndpoint,           \* the endpoints the interface holds open
    tpWritten,           \* the frames written to the endpoint, in order
    tpOps,               \* calls made so far
    tpLast               \* the last call, its inputs and its result

tpVars == <<mEndpoint, tpWritten, tpOps, tpLast>>

NULL == 0

Min(a, b) == IF a < b THEN a ELSE b

\* The reserved internal-notification signature (the reset-reason frame).
ResetReasonSignature == <<128, 6, 0, 114>>

\* Frames the upper layer appends: the reserved signature with a payload, a
\* frame of identical length differing in the fourth byte, a frame shorter
\* than the signature, and a frame longer than 255 bytes.
TxFrames ==
    { <<128, 6, 0, 114, 1>>,
      <<128, 6, 0, 115, 1>>,
      <<128, 6>>,
      [i \in 1..260 |-> 7] }

Priorities == {"high", "low"}

\* ------------------------------------------- Spinel::Buffer (FrameBuffer)

RECURSIVE SumLen(_)
SumLen(q) == IF q = <<>> THEN 0 ELSE Len(Head(q).bytes) + SumLen(Tail(q))

FreeSpace(b) == TxBufferSize - (SumLen(b.high) + SumLen(b.low))

\* Mutant: Add accepts every frame.
CanAdd_Always(b, bytes) == TRUE

\* Add: NoBufs when the frame does not fit in the remaining capacity.
CanAdd(b, bytes) == Len(bytes) <= FreeSpace(b)

InFrameAppend(b, tag, bytes, prio) ==
    IF prio = "high"
    THEN [b EXCEPT !.high = Append(@, [tag |-> tag, bytes |-> bytes])]
    ELSE [b EXCEPT !.low  = Append(@, [tag |-> tag, bytes |-> bytes])]

\* Mutant: Begin selects afresh although a frame is current.
OutFrameSelect_Reselect(b) ==
    IF b.high # <<>> THEN "high"
    ELSE IF b.low # <<>> THEN "low"
    ELSE "none"

\* The priority/FIFO rule: the oldest high-priority frame, else the oldest
\* low-priority frame; a selection already made is kept until Remove.
OutFrameSelect(b) ==
    IF b.cur # "none" THEN b.cur
    ELSE IF b.high # <<>> THEN "high"
    ELSE IF b.low # <<>> THEN "low"
    ELSE "none"

OutFrameBegin(b) == [b EXCEPT !.cur = OutFrameSelect(b)]

OutFrameBeginError(b) == IF OutFrameSelect(b) = "none" THEN "NotFound" ELSE "None"

HasCurrent(b) == b.cur # "none"

CurrentFrame(b) == IF b.cur = "high" THEN Head(b.high) ELSE Head(b.low)

OutFrameGetLength(b) == IF HasCurrent(b) THEN Len(CurrentFrame(b).bytes) ELSE 0

\* Read copies at most maxLen bytes from the start of the current frame.
OutFrameRead(b, maxLen) ==
    IF HasCurrent(b)
    THEN SubSeq(CurrentFrame(b).bytes, 1, Min(maxLen, Len(CurrentFrame(b).bytes)))
    ELSE <<>>

OutFrameRemove(b) ==
    IF b.cur = "high" THEN [b EXCEPT !.high = Tail(@), !.cur = "none"]
    ELSE IF b.cur = "low" THEN [b EXCEPT !.low = Tail(@), !.cur = "none"]
    ELSE b

PendingCount(b) == Len(b.high) + Len(b.low)

PendingTags(b) ==
    {b.high[i].tag : i \in 1..Len(b.high)} \cup {b.low[i].tag : i \in 1..Len(b.low)}

\* ---------------------------------------------------------------- Tasklet

\* Post: an already posted tasklet is not queued a second time.
Post(task) == IF task = 0 THEN 1 ELSE task

\* ----------------------------------------------------- NcpCPC: send path

\* Transfer buffers live on the heap: owner "ncp" after malloc, "cpc" once
\* sl_cpc_write accepted the buffer, "freed" after free().
NewTxBuf == [owner |-> "ncp", frees |-> 0]

\* free(buffer): free(NULL) does nothing.
Free(heap, buffer) ==
    IF buffer = NULL THEN heap
    ELSE [heap EXCEPT ![buffer] = [owner |-> "freed", frees |-> @.frees + 1]]

\* Mutant: the callback does not post the send task.
HandleFrameAddedToNcpBuffer_NoPost(task) == task

\* The frame-added callback registered by the constructor posts the send task.
HandleFrameAddedToNcpBuffer(task) == Post(task)

\* uint8_t bufferLen = txFrameBuffer.OutFrameGetLength();
BufferLen(frameLength) == frameLength % 256

\* The reset-reason test on the transfer buffer.  It reads buffer[0..3]
\* whatever bufferLen is: a byte past the end of the allocation (or behind a
\* NULL buffer) has no defined value, and oobMatch says whether the bytes
\* found there happen to continue the signature.
IsResetReason(data, oobMatch) ==
    /\ \A i \in 1..Min(4, Len(data)) : data[i] = ResetReasonSignature[i]
    /\ (Len(data) >= 4 \/ oobMatch)

\* The highest index (counted from 1) the reset-reason test reads in the
\* transfer buffer: the && chain stops at the first byte that differs, and
\* goes on to the next index while the bytes compared so far agree.
SignatureBytesRead(data) ==
    LET differing == {i \in 1..Min(4, Len(data)) : data[i] # ResetReasonSignature[i]}
    IN  IF differing # {}
        THEN CHOOSE i \in differing : \A j \in differing : i <= j
        ELSE Min(4, Len(data) + 1)

\* Mutant: the suppressed branch returns without removing the frame.
RemoveSuppressed_Skipped(b) == [b EXCEPT !.cur = "none"]

\* The removal on the suppressed branch.
RemoveSuppressed(b) == OutFrameRemove(b)

\* Mutant: a frame whose write failed is kept for a retry.
RemoveAfterWrite_OnlyOnSuccess(b, status) ==
    IF status = "OK" THEN OutFrameRemove(b) ELSE [b EXCEPT !.cur = "none"]

\* The removal after sl_cpc_write; the status of the write is ignored.
RemoveAfterWrite(b, status) == OutFrameRemove(b)

\* Whether a write-completion callback will come for this write.
WriteAccepted(status) == status = "OK"

WriteStatuses == {"OK", "FAIL"}

SendInit ==
    /\ mTxFrameBuffer = [high |-> <<>>, low |-> <<>>, cur |-> "none"]
    /\ mCpcSendTask = 0
    /\ txBufs = <<>>
    /\ cpcTxQueue = <<>>
    /\ runLog = <<>>
    /\ appended = <<>>
    /\ nAdds = 0
    /\ frameAddedCalls = 0
    /\ crashed = FALSE
    /\ lastOp = "init"

\* The upper layer appends a frame.  On success Spinel::Buffer invokes the
\* frame-added callback before returning.
AddFrame(bytes, prio) ==
    /\ ~crashed
    /\ nAdds < MaxAdds
    /\ nAdds' = nAdds + 1
    /\ IF CanAdd(mTxFrameBuffer, bytes)
       THEN /\ mTxFrameBuffer' =
                 InFrameAppend(mTxFrameBuffer, Len(appended) + 1, bytes, prio)
            /\ appended' = Append(appended, [bytes |-> bytes, prio |-> prio])
            /\ frameAddedCalls' = frameAddedCalls + 1
            /\ mCpcSendTask' = HandleFrameAddedToNcpBuffer(mCpcSendTask)
            /\ lastOp' = "AddOk"
       ELSE /\ lastOp' = "AddNoBufs"
            /\ UNCHANGED <<mTxFrameBuffer, appended, frameAddedCalls, mCpcSendTask>>
    /\ UNCHANGED <<txBufs, cpcTxQueue, runLog, crashed>>
    /\ UNCHANGED <<recvVars, smVars, tpVars>>

Add(bytes, prio) == AddFrame(bytes, prio) /\ UNCHANGED bufVars

\* One run of NcpCPC::SendToCPC.
\*   mallocOk  whether malloc returned a buffer
\*   oobMatch  what the signature test finds in bytes outside the buffer
\*   fault     whether the accesses through a NULL buffer fault
\*   status    what sl_cpc_write returns
SendToCPC(mallocOk, oobMatch, fault, status) ==
    LET b1        == OutFrameBegin(mTxFrameBuffer)
        bufferLen == BufferLen(OutFrameGetLength(b1))
        buffer    == IF mallocOk THEN Len(txBufs) + 1 ELSE NULL
        heap      == IF mallocOk THEN Append(txBufs, NewTxBuf) ELSE txBufs
        data      == IF mallocOk THEN OutFrameRead(b1, bufferLen) ELSE <<>>
        tag       == IF HasCurrent(b1) THEN CurrentFrame(b1).tag ELSE 0
        entry(outcome, st) ==
            [tag |-> tag, buffer |-> buffer, bytes |-> data, len |-> bufferLen,
             outcome |-> outcome, status |-> st,
             pending |-> PendingTags(mTxFrameBuffer)]
    IN  IF buffer = NULL /\ fault
        THEN /\ crashed' = TRUE
             /\ mTxFrameBuffer' = b1
             /\ lastOp' = "Fault"
             /\ UNCHANGED <<txBufs, cpcTxQueue, runLog>>
        ELSE IF IsResetReason(data, oobMatch)
        THEN /\ mTxFrameBuffer' = RemoveSuppressed(b1)
             /\ txBufs' = heap
             /\ runLog' = Append(runLog, entry("suppressed", "none"))
             /\ lastOp' = "Run"
             /\ UNCHANGED <<cpcTxQueue, crashed>>
        ELSE /\ txBufs' = IF WriteAccepted(status) /\ buffer # NULL
                          THEN [heap EXCEPT ![buffer].owner = "cpc"]
                          ELSE heap
             /\ cpcTxQueue' = IF WriteAccepted(status)
                              THEN Append(cpcTxQueue, buffer)
                              ELSE cpcTxQueue
             /\ runLog' = Append(runLog, entry("written", status))
             /\ mTxFrameBuffer' = RemoveAfterWrite(b1, status)
             /\ lastOp' = "Run"
             /\ UNCHANGED crashed

\* The scheduler runs the posted send tasklet: it is taken off the queue,
\* then its handler runs to completion.
SendTaskRun ==
    /\ ~crashed
    /\ mCpcSendTask > 0
    /\ mCpcSendTask' = mCpcSendTask - 1
    /\ \E mallocOk \in BOOLEAN, oobMatch \in BOOLEAN, fault \in BOOLEAN,
          status \in WriteStatuses :
            SendToCPC(mallocOk, oobMatch, fault, status)
    /\ UNCHANGED <<appended, nAdds, frameAddedCalls>>
    /\ UNCHANGED <<recvVars, smVars, bufVars, tpVars>>

\* Mutant: the write completion also posts the send task.
HandleCPCSendDone_Reposts ==
    /\ ~crashed
    /\ cpcTxQueue # <<>>
    /\ txBufs' = Free(txBufs, Head(cpcTxQueue))
    /\ cpcTxQueue' = Tail(cpcTxQueue)
    /\ mCpcSendTask' = Post(mCpcSendTask)
    /\ lastOp' = "SendDone"
    /\ UNCHANGED <<mTxFrameBuffer, runLog, appended, nAdds, frameAddedCalls,
                   crashed>>
    /\ UNCHANGED <<recvVars, smVars, bufVars, tpVars>>

\* CPC reports a completed write: the buffer it was given is freed.
HandleCPCSendDone ==
    /\ ~crashed
    /\ cpcTxQueue # <<>>
    /\ txBufs' = Free(txBufs, Head(cpcTxQueue))
    /\ cpcTxQueue' = Tail(cpcTxQueue)
    /\ lastOp' = "SendDone"
    /\ UNCHANGED <<mTxFrameBuffer, mCpcSendTask, runLog, appended, nAdds,
                   frameAddedCalls, crashed>>
    /\ UNCHANGED <<recvVars, smVars, bufVars, tpVars>>

AddSome == \E bytes \in TxFrames, prio \in Priorities : Add(bytes, prio)

SendNext == AddSome \/ SendTaskRun \/ HandleCPCSendDone

\* ------------------------------- FrameBuffer: the dequeue calls one by one

BufCall(op, result, tag, bytes, len, fresh) ==
    [op |-> op, result |-> result, tag |-> tag, bytes |-> bytes, len |-> len,
     fresh |-> fresh]

BufInit ==
    /\ bufLast = BufCall("init", "None", 0, <<>>, 0, FALSE)
    /\ bufSel = 0
    /\ bufRemoved = {}

BufOthersUnchanged ==
    UNCHANGED <<mCpcSendTask, txBufs, cpcTxQueue, runLog, appended, nAdds,
                frameAddedCalls, crashed, lastOp, recvVars, smVars, tpVars>>

BufAdd ==
    \E bytes \in TxFrames, prio \in Priorities :
        /\ AddFrame(bytes, prio)
        /\ bufLast' = BufCall("Add", IF CanAdd(mTxFrameBuffer, bytes)
                                     THEN "None" ELSE "NoBufs",
                              0, bytes, Len(bytes), FALSE)
        /\ UNCHANGED <<bufSel, bufRemoved>>

BufBegin ==
    LET b1  == OutFrameBegin(mTxFrameBuffer)
        tag == IF HasCurrent(b1) THEN CurrentFrame(b1).tag ELSE 0
    IN  /\ mTxFrameBuffer' = b1
        /\ bufLast' = BufCall("Begin", OutFrameBeginError(mTxFrameBuffer), tag,
                              <<>>, 0, bufSel = 0)
        /\ bufSel' = IF bufSel = 0 THEN tag ELSE bufSel
        /\ UNCHANGED bufRemoved
        /\ BufOthersUnchanged

BufGetLength ==
    /\ HasCurrent(mTxFrameBuffer)
    /\ bufLast' = BufCall("GetLength", "None", CurrentFrame(mTxFrameBuffer).tag,
                          <<>>, OutFrameGetLength(mTxFrameBuffer), FALSE)
    /\ UNCHANGED <<mTxFrameBuffer, bufSel, bufRemoved>>
    /\ BufOthersUnchanged

BufRead ==
    /\ HasCurrent(mTxFrameBuffer)
    /\ LET data == OutFrameRead(mTxFrameBuffer, OutFrameGetLength(mTxFrameBuffer))
       IN  bufLast' = BufCall("Read", "None", CurrentFrame(mTxFrameBuffer).tag,
                              data, Len(data), FALSE)
    /\ UNCHANGED <<mTxFrameBuffer, bufSel, bufRemoved>>
    /\ BufOthersUnchanged

\* Remove is called with a current frame only (the caller's precondition).
BufRemove ==
    /\ HasCurrent(mTxFrameBuffer)
    /\ mTxFrameBuffer' = OutFrameRemove(mTxFrameBuffer)
    /\ bufLast' = BufCall("Remove", "None", CurrentFrame(mTxFrameBuffer).tag,
                          <<>>, 0, FALSE)
    /\ bufSel' = 0
    /\ bufRemoved' = bufRemoved \cup {CurrentFrame(mTxFrameBuffer).tag}
    /\ BufOthersUnchanged

BufferNext == BufAdd \/ BufBegin \/ BufGetLength \/ BufRead \/ BufRemove

\* -------------------------------------------------- NcpCPC: receive path

\* Payloads the peer sends.
RxPayloads == { <<1>>, <<2, 3>>, <<128, 6, 0, 114>> }

RecvInit ==
    /\ cpcRxQueue = <<>>
    /\ rxBufs = <<>>
    /\ rxPc = "idle"
    /\ rxData = NULL
    /\ rxLength = 0
    /\ handled = <<>>
    /\ nArrivals = 0
    /\ rxLast = "init"
    /\ rxKinds = <<>>

\* sl_cpc_read with SL_CPC_FLAG_NO_BLOCK: OK with the oldest payload, or a
\* status other than OK when nothing is pending.
SlCpcReadStatus(queue) == IF queue = <<>> THEN "EMPTY" ELSE "OK"

\* Mutant: the status test is dropped and the handler runs on every poll.
ReadReturnedData_Always(status) == TRUE

\* if (status != SL_STATUS_OK) return;
ReadReturnedData(status) == status = "OK"

\* sl_cpc_free_rx_buffer(data)
SlCpcFreeRxBuffer(heap, data) ==
    IF data = NULL THEN heap
    ELSE [heap EXCEPT ![data].owner = "freed", ![data].frees = @ + 1]

\* What the peer may send next: a whole frame or the first chunk of one,
\* and after a first chunk the chunk that completes the frame.
NextKinds(kinds) ==
    IF kinds # <<>> /\ kinds[Len(kinds)] = "first"
    THEN {"last"} ELSE {"whole", "first"}

\* The peer's payload arrives at the endpoint.
CpcDeliver ==
    /\ nArrivals < MaxArrivals
    /\ \E payload \in RxPayloads : cpcRxQueue' = Append(cpcRxQueue, payload)
    /\ \E kind \in NextKinds(rxKinds) : rxKinds' = Append(rxKinds, kind)
    /\ nArrivals' = nArrivals + 1
    /\ rxLast' = "Deliver"
    /\ UNCHANGED <<rxBufs, rxPc, rxData, rxLength, handled>>
    /\ UNCHANGED <<sendVars, smVars, bufVars, tpVars>>

\* efr32CpcProcess -> HandleCPCReceiveDone, up to the status test.
ReceivePoll ==
    /\ rxPc = "idle"
    /\ IF ReadReturnedData(SlCpcReadStatus(cpcRxQueue))
       THEN /\ rxPc' = "handle"
            /\ rxLast' = "PollData"
            /\ IF cpcRxQueue # <<>>
               THEN /\ rxBufs' = Append(rxBufs, [bytes |-> Head(cpcRxQueue),
                                                 owner |-> "ncp", frees |-> 0])
                    /\ rxData' = Len(rxBufs) + 1
                    /\ rxLength' = Len(Head(cpcRxQueue)) % 65536
                    /\ cpcRxQueue' = Tail(cpcRxQueue)
               ELSE UNCHANGED <<rxBufs, rxData, rxLength, cpcRxQueue>>
       ELSE /\ rxLast' = "PollNoData"
            /\ UNCHANGED <<rxPc, rxBufs, rxData, rxLength, cpcRxQueue>>
    /\ UNCHANGED <<handled, nArrivals, rxKinds>>
    /\ UNCHANGED <<sendVars, smVars, bufVars, tpVars>>

\* Mutant: the handler is given the bytes gathered since the frame began.
ReceivedBytes_Reassembled(heap, data) ==
    IF data = NULL THEN <<>>
    ELSE IF rxKinds[data] = "last" THEN heap[data - 1].bytes \o heap[data].bytes
    ELSE heap[data].bytes

\* The bytes behind the pointer handed to HandleReceive: the payload that
\* sl_cpc_read returned, nothing else.
ReceivedBytes(heap, data) ==
    IF data = NULL THEN <<>> ELSE heap[data].bytes

\* super_t::HandleReceive(data, dataLength)
ReceiveHandle ==
    /\ rxPc = "handle"
    /\ handled' = Append(handled,
                         [buffer |-> rxData,
                          bytes  |-> ReceivedBytes(rxBufs, rxData),
                          len    |-> rxLength])
    /\ rxPc' = "free"
    /\ rxLast' = "Handle"
    /\ UNCHANGED <<cpcRxQueue, rxBufs, rxData, rxLength, nArrivals, rxKinds>>
    /\ UNCHANGED <<sendVars, smVars, bufVars, tpVars>>

\* sl_cpc_free_rx_buffer(data), then return.
ReceiveFree ==
    /\ rxPc = "free"
    /\ rxBufs' = SlCpcFreeRxBuffer(rxBufs, rxData)
    /\ rxPc' = "idle"
    /\ rxLast' = "Free"
    /\ UNCHANGED <<cpcRxQueue, rxData, rxLength, handled, nArrivals, rxKinds>>
    /\ UNCHANGED <<sendVars, smVars, bufVars, tpVars>>

RecvNext == CpcDeliver \/ ReceivePoll \/ ReceiveHandle \/ ReceiveFree

\* ------------------------------------------ software source-match table

Iids == 0..(PanIdNum - 1)

ShortSlots == 0..(ShortEntryNum - 1)

ExtSlots == 0..(ExtEntryNum - 1)

\* PAN IDs, short addresses and extended addresses the stack uses.  The
\* short addresses include one whose sum with a PAN ID wraps around 16 bits;
\* the first two extended addresses have the same 16-bit word sum.
PanIds == {0, 1}

ShortAddrs == {1, 65535}

ExtAddrs ==
    { <<1, 0, 0, 0, 0, 0, 0, 0>>,
      <<0, 0, 1, 0, 0, 0, 0, 0>>,
      <<255, 255, 0, 0, 0, 0, 0, 0>> }

FreeEntry == [checksum |-> 0, allocated |-> FALSE]

\* The smallest member of a set of indices, or -1: the result of a loop
\* that breaks at the first hit.
FirstOf(S) == IF S = {} THEN -1 ELSE CHOOSE i \in S : \A j \in S : i <= j

Uint16(n) == n % 65536

ShortChecksum(iid, aShortAddress) == Uint16(aShortAddress + sPanId[iid])

\* (uint16_t)m8[2k] | (uint16_t)(m8[2k+1] << 8)
ExtWord(aExtAddress, k) == aExtAddress[2 * k + 1] + 256 * aExtAddress[2 * k + 2]

ExtChecksum(iid, aExtAddress) ==
    Uint16(Uint16(Uint16(Uint16(sPanId[iid] + ExtWord(aExtAddress, 0))
                         + ExtWord(aExtAddress, 1))
                  + ExtWord(aExtAddress, 2))
           + ExtWord(aExtAddress, 3))

\* utilsSoftSrcMatchShortFindEntry indexes the two-dimensional table with the
\* loop index alone, srcMatchShortEntry[i], and ignores iid.  A build
\* resolves that either to the first entry of row i (shortRowView) or to
\* entry i of the table's storage, which lies in row 0.  Row i exists only
\* for i < PanIdNum; what lies behind the table is not defined, and oobMatch
\* says whether it happens to match.
ShortEntryMatches(i, checksum, oobMatch) ==
    IF shortRowView
    THEN IF i \in Iids
         THEN /\ checksum = srcMatchShortEntry[i][0].checksum
              /\ srcMatchShortEntry[i][0].allocated
         ELSE oobMatch
    ELSE /\ checksum = srcMatchShortEntry[0][i].checksum
         /\ srcMatchShortEntry[0][i].allocated

utilsSoftSrcMatchShortFindEntry(iid, aShortAddress, oobMatch) ==
    FirstOf({i \in ShortSlots :
                ShortEntryMatches(i, ShortChecksum(iid, aShortAddress), oobMatch)})

\* Mutant: the scan for a free slot stops one slot early.
findSrcMatchShortAvailEntry_OffByOne(iid) ==
    FirstOf({i \in ShortSlots :
                i < ShortEntryNum - 1 /\ ~srcMatchShortEntry[iid][i].allocated})

findSrcMatchShortAvailEntry(iid) ==
    FirstOf({i \in ShortSlots : ~srcMatchShortEntry[iid][i].allocated})

addToSrcMatchShortIndirect(iid, entry, aShortAddress) ==
    [srcMatchShortEntry EXCEPT ![iid][entry] =
        [checksum |-> ShortChecksum(iid, aShortAddress), allocated |-> TRUE]]

removeFromSrcMatchShortIndirect(iid, entry) ==
    [srcMatchShortEntry EXCEPT ![iid][entry] = FreeEntry]

utilsSoftSrcMatchExtFindEntry(iid, aExtAddress) ==
    FirstOf({i \in ExtSlots :
                /\ ExtChecksum(iid, aExtAddress) = srcMatchExtEntry[iid][i].checksum
                /\ srcMatchExtEntry[iid][i].allocated})

findSrcMatchExtAvailEntry(iid) ==
    FirstOf({i \in ExtSlots : ~srcMatchExtEntry[iid][i].allocated})

addToSrcMatchExtIndirect(iid, entry, aExtAddress) ==
    [srcMatchExtEntry EXCEPT ![iid][entry] =
        [checksum |-> ExtChecksum(iid, aExtAddress), allocated |-> TRUE]]

removeFromSrcMatchExtIndirect(iid, entry) ==
    [srcMatchExtEntry EXCEPT ![iid][entry] = FreeEntry]

SmInit ==
    /\ sPanId = [iid \in Iids |-> 0]
    /\ srcMatchShortEntry = [iid \in Iids |-> [i \in ShortSlots |-> FreeEntry]]
    /\ srcMatchExtEntry = [iid \in Iids |-> [i \in ExtSlots |-> FreeEntry]]
    /\ shortRowView \in BOOLEAN
    /\ smOps = 0
    /\ smLast = [op |-> "init", iid |-> 0, arg |-> {}, error |-> "None"]
    /\ shortHeld = [iid \in Iids |-> [i \in ShortSlots |-> {}]]
    /\ extHeld = [iid \in Iids |-> [i \in ExtSlots |-> {}]]

SmStep(op, iid, arg, error) ==
    /\ smOps' = smOps + 1
    /\ smLast' = [op |-> op, iid |-> iid, arg |-> arg, error |-> error]
    /\ UNCHANGED shortRowView
    /\ UNCHANGED <<sendVars, recvVars, bufVars, tpVars>>

utilsSoftSrcMatchSetPanId ==
    /\ smOps < MaxTableOps
    /\ \E iid \in Iids, aPanId \in PanIds :
          /\ sPanId' = [sPanId EXCEPT ![iid] = aPanId]
          /\ SmStep("SetPanId", iid, {aPanId}, "None")
    /\ UNCHANGED <<srcMatchShortEntry, srcMatchExtEntry, shortHeld, extHeld>>

otPlatRadioAddSrcMatchShortEntry ==
    /\ smOps < MaxTableOps
    /\ \E iid \in Iids, aShortAddress \in ShortAddrs :
          LET entry == findSrcMatchShortAvailEntry(iid)
          IN  IF entry >= 0 /\ entry < ShortEntryNum
              THEN /\ srcMatchShortEntry' =
                        addToSrcMatchShortIndirect(iid, entry, aShortAddress)
                   /\ shortHeld' = [shortHeld EXCEPT ![iid][entry] = {aShortAddress}]
                   /\ SmStep("AddShort", iid, {aShortAddress}, "None")
              ELSE /\ UNCHANGED <<srcMatchShortEntry, shortHeld>>
                   /\ SmStep("AddShort", iid, {aShortAddress}, "NoBufs")
    /\ UNCHANGED <<sPanId, srcMatchExtEntry, extHeld>>

otPlatRadioClearSrcMatchShortEntry ==
    /\ smOps < MaxTableOps
    /\ \E iid \in Iids, aShortAddress \in ShortAddrs, oobMatch \in BOOLEAN :
          LET entry == utilsSoftSrcMatchShortFindEntry(iid, aShortAddress, oobMatch)
          IN  IF entry >= 0 /\ entry < ShortEntryNum
              THEN /\ srcMatchShortEntry' = removeFromSrcMatchShortIndirect(iid, entry)
                   /\ shortHeld' = [shortHeld EXCEPT ![iid][entry] = {}]
                   /\ SmStep("ClearShort", iid, {aShortAddress}, "None")
              ELSE /\ UNCHANGED <<srcMatchShortEntry, shortHeld>>
                   /\ SmStep("ClearShort", iid, {aShortAddress}, "NoAddress")
    /\ UNCHANGED <<sPanId, srcMatchExtEntry, extHeld>>

otPlatRadioClearSrcMatchShortEntries ==
    /\ smOps < MaxTableOps
    /\ \E iid \in Iids :
          /\ srcMatchShortEntry' =
                [srcMatchShortEntry EXCEPT ![iid] = [i \in ShortSlots |-> FreeEntry]]
          /\ shortHeld' = [shortHeld EXCEPT ![iid] = [i \in ShortSlots |-> {}]]
          /\ SmStep("ClearAllShort", iid, {}, "None")
    /\ UNCHANGED <<sPanId, srcMatchExtEntry, extHeld>>

otPlatRadioAddSrcMatchExtEntry ==
    /\ smOps < MaxTableOps
    /\ \E iid \in Iids, aExtAddress \in ExtAddrs :
          LET entry == findSrcMatchExtAvailEntry(iid)
          IN  IF entry >= 0 /\ entry < ExtEntryNum
              THEN /\ srcMatchExtEntry' =
                        addToSrcMatchExtIndirect(iid, entry, aExtAddress)
                   /\ extHeld' = [extHeld EXCEPT ![iid][entry] = {aExtAddress}]
                   /\ SmStep("AddExt", iid, {aExtAddress}, "None")
              ELSE /\ UNCHANGED <<srcMatchExtEntry, extHeld>>
                   /\ SmStep("AddExt", iid, {aExtAddress}, "NoBufs")
    /\ UNCHANGED <<sPanId, srcMatchShortEntry, shortHeld>>

otPlatRadioClearSrcMatchExtEntry ==
    /\ smOps < MaxTableOps
    /\ \E iid \in Iids, aExtAddress \in ExtAddrs :
          LET entry == utilsSoftSrcMatchExtFindEntry(iid, aExtAddress)
          IN  IF entry >= 0 /\ entry < ExtEntryNum
              THEN /\ srcMatchExtEntry' = removeFromSrcMatchExtIndirect(iid, entry)
                   /\ extHeld' = [extHeld EXCEPT ![iid][entry] = {}]
                   /\ SmStep("ClearExt", iid, {aExtAddress}, "None")
              ELSE /\ UNCHANGED <<srcMatchExtEntry, extHeld>>
                   /\ SmStep("ClearExt", iid, {aExtAddress}, "NoAddress")
    /\ UNCHANGED <<sPanId, srcMatchShortEntry, shortHeld>>

otPlatRadioClearSrcMatchExtEntries ==
    /\ smOps < MaxTableOps
    /\ \E iid \in Iids :
          /\ srcMatchExtEntry' =
                [srcMatchExtEntry EXCEPT ![iid] = [i \in ExtSlots |-> FreeEntry]]
          /\ extHeld' = [extHeld EXCEPT ![iid] = [i \in ExtSlots |-> {}]]
          /\ SmStep("ClearAllExt", iid, {}, "None")
    /\ UNCHANGED <<sPanId, srcMatchShortEntry, shortHeld>>

SrcMatchNext ==
    \/ utilsSoftSrcMatchSetPanId
    \/ otPlatRadioAddSrcMatchShortEntry
    \/ otPlatRadioClearSrcMatchShortEntry
    \/ otPlatRadioClearSrcMatchShortEntries
    \/ otPlatRadioAddSrcMatchExtEntry
    \/ otPlatRadioClearSrcMatchExtEntry
    \/ otPlatRadioClearSrcMatchExtEntries

\* ------------------------------------------------ CpcInterface (host side)

EndpointIds == {1, 2}

TpFrames == { <<1>>, <<2, 3>> }

\* When the socket becomes writable, in milliseconds from the call; -1: not
\* at all.
WritableDelays == {0, 1999, 2100, -1}

\* Timeouts passed to WaitForFrame, and when inbound data arrives, both in
\* microseconds from the call; -1: no data at all.
FrameTimeouts == {0, 1000}

ArrivalDelays == {0, 500, 1500, -1}

TpCall(op, result, id, openOk, encoded, delay, timeout) ==
    [op |-> op, result |-> result, id |-> id, openOk |-> openOk,
     encoded |-> encoded, delay |-> delay, timeout |-> timeout]

TpInit ==
    /\ mEndpoint = {}
    /\ tpWritten = <<>>
    /\ tpOps = 0
    /\ tpLast = TpCall("init", "None", 0, FALSE, FALSE, 0, 0)

TpStep ==
    /\ tpOps < MaxTransportOps
    /\ tpOps' = tpOps + 1
    /\ UNCHANGED <<sendVars, recvVars, smVars, bufVars>>

InitResult(endpoint, openOk) ==
    IF endpoint # {} THEN "Already"
    ELSE IF ~openOk THEN "InvalidArgs"
    ELSE "None"

\* Mutant: Init opens the endpoint before it finds the interface active.
InitEndpoint_OpensFirst(endpoint, id, result) ==
    IF result \in {"None", "Already"} THEN endpoint \cup {id} ELSE endpoint

InitEndpoint(endpoint, id, result) ==
    IF result = "None" THEN {id} ELSE endpoint

CpcInit ==
    \E id \in EndpointIds, openOk \in BOOLEAN :
        LET result == InitResult(mEndpoint, openOk)
        IN  /\ TpStep
            /\ mEndpoint' = InitEndpoint(mEndpoint, id, result)
            /\ tpLast' = TpCall("Init", result, id, openOk, FALSE, 0, 0)
            /\ UNCHANGED tpWritten

CpcDeinit ==
    /\ TpStep
    /\ mEndpoint' = {}
    /\ tpLast' = TpCall("Deinit", "None", 0, FALSE, FALSE, 0, 0)
    /\ UNCHANGED tpWritten

\* Mutant: on expiry the wait is started once more.
WaitForWritable_Retry(delay) ==
    IF delay >= 0 /\ delay <= 2 * kMaxWaitTime THEN "None" ELSE "Failed"

WaitForWritable(delay) ==
    IF delay >= 0 /\ delay <= kMaxWaitTime THEN "None" ELSE "Failed"

SendFrame ==
    \E aFrame \in TpFrames, encoded \in BOOLEAN, delay \in WritableDelays :
        LET result == IF ~encoded THEN "NoBufs" ELSE WaitForWritable(delay)
        IN  /\ mEndpoint # {}
            /\ TpStep
            /\ tpWritten' = IF result = "None" THEN Append(tpWritten, aFrame)
                            ELSE tpWritten
            /\ tpLast' = TpCall("SendFrame", result, 0, FALSE, encoded, delay, 0)
            /\ UNCHANGED mEndpoint

WaitForFrame ==
    \E aTimeoutUs \in FrameTimeouts, delay \in ArrivalDelays :
        /\ mEndpoint # {}
        /\ TpStep
        /\ tpLast' = TpCall("WaitForFrame",
                            IF delay >= 0 /\ delay <= aTimeoutUs
                            THEN "None" ELSE "ResponseTimeout",
                            0, FALSE, FALSE, delay, aTimeoutUs)
        /\ UNCHANGED <<mEndpoint, tpWritten>>

TransportNext == CpcInit \/ CpcDeinit \/ SendFrame \/ WaitForFrame

vars == <<sendVars, recvVars, smVars, bufVars, tpVars>>

Init == SendInit /\ RecvInit /\ SmInit /\ BufInit /\ TpInit

SendSpec == Init /\ [][SendNext]_vars

RecvSpec == Init /\ [][RecvNext]_vars

SrcMatchSpec == Init /\ [][SrcMatchNext]_vars

BufferSpec == Init /\ [][BufferNext]_vars

TransportSpec == Init /\ [][TransportNext]_vars

\* The cooperative scheduler runs every posted tasklet, and CPC completes
\* every write it accepted.
FairSendSpec ==
    SendSpec /\ WF_vars(SendTaskRun) /\ WF_vars(HandleCPCSendDone)

\* ------------------------------------------------------ claims: send path

RunIndices == 1..Len(runLog)

\* Runs that had a transfer buffer to work with.
AllocatedRuns == {i \in RunIndices : runLog[i].buffer # NULL}

Appended(i) == appended[runLog[i].tag].bytes

HighTags(tags) == {t \in tags : appended[t].prio = "high"}

Oldest(tags) == CHOOSE t \in tags : \A u \in tags : t <= u

\* The frame the priority/FIFO rule presents among the pending tags.
RuleChoice(tags) ==
    IF HighTags(tags) # {} THEN Oldest(HighTags(tags)) ELSE Oldest(tags)

HasPrefix(bytes, prefix) ==
    Len(bytes) >= Len(prefix) /\ SubSeq(bytes, 1, Len(prefix)) = prefix

\* C1: with finitely many Add calls and a fair scheduler, every accepted
\* frame is eventually dequeued, so the FrameBuffer ends up empty for good
\* (a run that faulted on a NULL transfer buffer aside).
C1_ReliableDelivery == <>[](crashed \/ PendingCount(mTxFrameBuffer) = 0)

\* C2: every run drains the frame the priority/FIFO rule presents, and the
\* bytes and length handed to sl_cpc_write are those that were appended
\* (stated of the runs whose malloc succeeded).
C2_DrainOrderRoundTrip ==
    \A i \in AllocatedRuns :
        /\ runLog[i].tag = RuleChoice(runLog[i].pending)
        /\ runLog[i].outcome = "written" =>
               /\ runLog[i].bytes = Appended(i)
               /\ runLog[i].len = Len(Appended(i))

\* C3: every transfer buffer a run allocated is owned by CPC (write issued,
\* completion pending) or was released, once, at its write completion.
C3_TransferBufferOwnership ==
    \A k \in DOMAIN txBufs :
        \/ txBufs[k].owner = "cpc" /\ txBufs[k].frees = 0
        \/ txBufs[k].owner = "freed" /\ txBufs[k].frees = 1

\* C4: a frame beginning with the reserved signature is removed without being
\* written; a frame whose first four bytes differ from it is written with
\* its bytes and length unchanged (stated of the runs whose malloc succeeded
\* and of frames that have four bytes).
C4_SuppressionFilter ==
    \A i \in AllocatedRuns :
        /\ runLog[i].tag \notin PendingTags(mTxFrameBuffer)
        /\ Len(Appended(i)) >= 4 =>
              IF HasPrefix(Appended(i), ResetReasonSignature)
              THEN runLog[i].outcome = "suppressed"
              ELSE /\ runLog[i].outcome = "written"
                   /\ runLog[i].bytes = Appended(i)
                   /\ runLog[i].len = Len(Appended(i))

\* C5: a frame whose write was rejected is removed from the FrameBuffer all
\* the same, and no other run hands that frame to the transport again.
C5_FailedSendRemovedOnce ==
    \A i \in RunIndices :
        (runLog[i].outcome = "written" /\ runLog[i].status = "FAIL") =>
            /\ runLog[i].tag \notin PendingTags(mTxFrameBuffer)
            /\ \A j \in RunIndices \ {i} : runLog[j].tag # runLog[i].tag

\* C5 witness: a rejected write, and a later run for the next frame.
C5_Witness ==
    /\ Len(runLog) = 2
    /\ runLog[1].outcome = "written" /\ runLog[1].status = "FAIL"
    /\ runLog[2].outcome = "written"

\* C6: a run whose malloc failed leaves the pending frames as they were.
C6_AllocFailureKeepsFrame ==
    (lastOp = "Run" /\ runLog[Len(runLog)].buffer = NULL) =>
        /\ PendingTags(mTxFrameBuffer) = runLog[Len(runLog)].pending
        /\ mTxFrameBuffer.cur = "none"

\* C8: a successful Add has invoked the frame-added callback once and leaves
\* a send-task activation pending; a failed Add invokes nothing and posts
\* nothing.
C8_AddNotifies ==
    [][ /\ lastOp' = "AddOk" =>
              /\ frameAddedCalls' = frameAddedCalls + 1
              /\ mCpcSendTask' = 1
        /\ lastOp' = "AddNoBufs" =>
              /\ frameAddedCalls' = frameAddedCalls
              /\ mCpcSendTask' = mCpcSendTask ]_vars

\* C8 witness: an accepted Add left the task pending, and a later Add failed.
C8_Witness ==
    lastOp = "AddNoBufs" /\ frameAddedCalls = 1 /\ mCpcSendTask = 1

\* C9: at most one activation of the send task is pending, and a run that
\* returns has removed exactly one frame.
C9_OneActivationOneFrame ==
    /\ [](mCpcSendTask <= 1)
    /\ [][ Len(runLog') = Len(runLog) + 1 =>
              PendingCount(mTxFrameBuffer') = PendingCount(mTxFrameBuffer) - 1 ]_vars

\* C9 witness: two Adds were coalesced into one activation, which ran and
\* removed one of the two frames.
C9_Witness ==
    /\ Len(appended) = 2 /\ Len(runLog) = 1
    /\ PendingCount(mTxFrameBuffer) = 1 /\ mCpcSendTask = 0

\* C20: while an activation of the send task is pending the FrameBuffer holds
\* a frame, so every run began on a non-empty buffer, its OutFrameBegin
\* selected a frame that was pending, and its OutFrameRemove removed that
\* selection (no selection is left over once the run returned).
C20_GuardedRemoval ==
    /\ mCpcSendTask > 0 => PendingCount(mTxFrameBuffer) > 0
    /\ ~crashed => mTxFrameBuffer.cur = "none"
    /\ \A i \in RunIndices :
          /\ runLog[i].pending # {}
          /\ runLog[i].tag \in runLog[i].pending

\* C20 witness: Add, run, Add, run: each run found the frame that posted it.
C20_Witness ==
    /\ Len(runLog) = 2 /\ mCpcSendTask = 0
    /\ runLog[1].tag = 1 /\ runLog[2].tag = 2
    /\ runLog[2].pending = {2}

\* C21: in every run with a transfer buffer, the size allocated and passed
\* to sl_cpc_write and the number of bytes read into the buffer equal the
\* length of the current frame as it was appended.
C21_LengthFidelity ==
    \A i \in AllocatedRuns :
        /\ runLog[i].len = Len(Appended(i))
        /\ Len(runLog[i].bytes) = Len(Appended(i))

\* C22: the reset-reason test of a run reads no byte at or beyond the length
\* of its transfer buffer (a NULL buffer has none), and a run suppresses only
\* a frame whose buffer holds the four signature bytes.
C22_SignatureReadInBounds ==
    \A i \in RunIndices :
        /\ SignatureBytesRead(runLog[i].bytes) <= Len(runLog[i].bytes)
        /\ runLog[i].outcome = "suppressed" =>
              /\ Len(runLog[i].bytes) >= 4
              /\ HasPrefix(runLog[i].bytes, ResetReasonSignature)

\* ---------------------------------------------------- claims: FrameBuffer

\* C14: between a successful Begin and the next Remove every Begin, Read and
\* GetLength refers to the frame that Begin selected, whatever was added
\* since; the first Begin after a Remove selects the frame the priority/FIFO
\* rule presents, never a removed one; Begin on an empty buffer returns
\* NotFound.
C14_DequeueCursor ==
    /\ bufSel \notin bufRemoved
    /\ bufSel # 0 => /\ HasCurrent(mTxFrameBuffer)
                     /\ CurrentFrame(mTxFrameBuffer).tag = bufSel
    /\ (bufLast.op \in {"Begin", "Read", "GetLength"} /\ bufSel # 0) =>
          /\ bufLast.result = "None"
          /\ bufLast.tag = bufSel
          /\ bufLast.op = "Read" => bufLast.bytes = appended[bufSel].bytes
          /\ bufLast.op = "GetLength" => bufLast.len = Len(appended[bufSel].bytes)
    /\ bufLast.op = "Begin" =>
          /\ (bufLast.result = "NotFound") = (PendingCount(mTxFrameBuffer) = 0)
          /\ bufLast.result = "NotFound" => bufSel = 0 /\ ~HasCurrent(mTxFrameBuffer)
          /\ bufLast.result = "None" => bufLast.tag \notin bufRemoved
          /\ (bufLast.result = "None" /\ bufLast.fresh) =>
                bufLast.tag = RuleChoice(PendingTags(mTxFrameBuffer))

\* C14 witness: a low-priority frame was selected, a high-priority frame was
\* added, and Begin was called again: it still names the low-priority frame.
C14_Witness ==
    /\ bufLast.op = "Begin" /\ ~bufLast.fresh /\ bufLast.tag = 1
    /\ Len(appended) = 2
    /\ appended[1].prio = "low" /\ appended[2].prio = "high"
    /\ PendingTags(mTxFrameBuffer) = {1, 2}

\* C15: the frames held never exceed the capacity, so an Add that does not
\* fit is not accepted; an accepted Add appends its frame; an Add that
\* returned NoBufs left the pending frames and the selection as they were.
C15_AddBeyondCapacity ==
    /\ [](SumLen(mTxFrameBuffer.high) + SumLen(mTxFrameBuffer.low) <= TxBufferSize)
    /\ [][ bufLast'.op = "Add" /\ nAdds' = nAdds + 1 =>
              IF bufLast'.len <= FreeSpace(mTxFrameBuffer)
              THEN /\ bufLast'.result = "None"
                   /\ PendingCount(mTxFrameBuffer') = PendingCount(mTxFrameBuffer) + 1
              ELSE /\ bufLast'.result = "NoBufs"
                   /\ mTxFrameBuffer' = mTxFrameBuffer ]_vars

\* C15 witness: with a frame selected, an Add that did not fit was refused.
C15_Witness ==
    /\ bufLast.op = "Add" /\ bufLast.result = "NoBufs"
    /\ bufSel = 1 /\ HasCurrent(mTxFrameBuffer)
    /\ PendingTags(mTxFrameBuffer) = {1}

\* --------------------------------------------------- claims: CpcInterface

\* C18: at most one endpoint is open; Init on an initialized interface
\* returns Already and leaves the endpoint as it was; Init whose endpoint
\* cannot be opened returns InvalidArgs and leaves the interface
\* uninitialized; Deinit leaves the interface uninitialized from every state,
\* and an Init that can open its endpoint then succeeds.
C18_TransportLifecycle ==
    /\ [](Cardinality(mEndpoint) <= 1)
    /\ [][ tpOps' = tpOps + 1 =>
              /\ tpLast'.op = "Init" =>
                    IF mEndpoint # {}
                    THEN tpLast'.result = "Already" /\ mEndpoint' = mEndpoint
                    ELSE IF ~tpLast'.openOk
                    THEN tpLast'.result = "InvalidArgs" /\ mEndpoint' = {}
                    ELSE tpLast'.result = "None" /\ mEndpoint' = {tpLast'.id}
              /\ tpLast'.op = "Deinit" => mEndpoint' = {} ]_vars

\* C18 witness: with an endpoint open, an Init for another endpoint was
\* answered Already and opened nothing.
C18_Witness ==
    /\ tpLast.op = "Init" /\ tpLast.result = "Already"
    /\ mEndpoint # {} /\ tpLast.id \notin mEndpoint

\* C19: SendFrame whose socket is not writable within kMaxWaitTime returns
\* Failed and writes nothing, and returns None only with the frame written;
\* WaitForFrame returns ResponseTimeout when no data arrives within the
\* timeout and None only when data arrived; an event that comes after the
\* expiry is not waited for again.
C19_BoundedWaits ==
    [][ tpOps' = tpOps + 1 =>
          /\ (tpLast'.op = "SendFrame" /\ tpLast'.encoded) =>
                IF tpLast'.delay < 0 \/ tpLast'.delay > kMaxWaitTime
                THEN tpLast'.result = "Failed" /\ tpWritten' = tpWritten
                ELSE /\ tpLast'.result = "None"
                     /\ Len(tpWritten') = Len(tpWritten) + 1
          /\ (tpLast'.op = "SendFrame" /\ tpLast'.result # "None") =>
                tpWritten' = tpWritten
          /\ tpLast'.op = "WaitForFrame" =>
                IF tpLast'.delay < 0 \/ tpLast'.delay > tpLast'.timeout
                THEN tpLast'.result = "ResponseTimeout"
                ELSE tpLast'.result = "None" ]_vars

\* C19 witness: a send timed out on a socket that became writable only after
\* the bound, with an earlier frame written and nothing written since.
C19_Witness ==
    /\ tpLast.op = "SendFrame" /\ tpLast.result = "Failed"
    /\ tpLast.delay > kMaxWaitTime
    /\ Len(tpWritten) = 1

\* --------------------------------------------------- claims: receive path

HandledFor(k) == {i \in 1..Len(handled) : handled[i].buffer = k}

\* C7: a poll that read data calls HandleReceive once, with the bytes and
\* length read, and gives the buffer back once, after the handler returned;
\* a poll that read nothing calls no handler and releases nothing; no
\* receive buffer is held once the poll has returned.
C7_ReceivePath ==
    /\ rxPc = "idle" => \A k \in DOMAIN rxBufs : rxBufs[k].owner = "freed"
    /\ \A k \in DOMAIN rxBufs :
          /\ rxBufs[k].frees <= 1
          /\ (rxBufs[k].owner = "freed") = (rxBufs[k].frees = 1)
          /\ rxBufs[k].owner = "freed" => Cardinality(HandledFor(k)) = 1
          /\ Cardinality(HandledFor(k)) <= 1
    /\ \A i \in 1..Len(handled) :
          /\ handled[i].buffer \in DOMAIN rxBufs
          /\ handled[i].bytes = rxBufs[handled[i].buffer].bytes
          /\ handled[i].len = Len(rxBufs[handled[i].buffer].bytes)
    /\ Len(handled) = Len(rxBufs) - (IF rxPc = "handle" THEN 1 ELSE 0)
    /\ rxLast = "PollNoData" => rxPc = "idle"

\* C7 witness: two polls delivered their payloads and returned, and a third
\* poll found nothing.
C7_Witness ==
    /\ rxLast = "PollNoData"
    /\ Len(handled) = 2
    /\ \A k \in DOMAIN rxBufs : rxBufs[k].frees = 1

\* The bytes of the frame that arrival k completes.
FrameBytes(k) ==
    IF rxKinds[k] = "last" THEN rxBufs[k - 1].bytes \o rxBufs[k].bytes
    ELSE rxBufs[k].bytes

ShortAllocated(table, iid) == {i \in ShortSlots : table[iid][i].allocated}

ExtAllocated(table, iid) == {i \in ExtSlots : table[iid][i].allocated}

\* Table `new` is table `old` with one free slot of instance iid allocated.
OneSlotAllocated(old, new, iid, slots) ==
    \E s \in slots :
        /\ ~old[iid][s].allocated
        /\ new[iid][s].allocated
        /\ \A j \in Iids, t \in slots : (j # iid \/ t # s) => new[j][t] = old[j][t]

\* C10: AddEntry succeeds and allocates exactly one free slot of the
\* instance's table while that table has a free slot, and returns NoBufs
\* changing no table once the instance's slots are all allocated; a table
\* never holds more allocated slots than its capacity.
C10_TableCapacity ==
    /\ [](\A iid \in Iids :
            /\ DOMAIN srcMatchShortEntry[iid] = ShortSlots
            /\ DOMAIN srcMatchExtEntry[iid] = ExtSlots
            /\ Cardinality(ShortAllocated(srcMatchShortEntry, iid)) <= ShortEntryNum
            /\ Cardinality(ExtAllocated(srcMatchExtEntry, iid)) <= ExtEntryNum)
    /\ [][ /\ smLast'.op = "AddShort" =>
                IF ShortAllocated(srcMatchShortEntry, smLast'.iid) # ShortSlots
                THEN /\ smLast'.error = "None"
                     /\ OneSlotAllocated(srcMatchShortEntry, srcMatchShortEntry',
                                         smLast'.iid, ShortSlots)
                     /\ UNCHANGED srcMatchExtEntry
                ELSE /\ smLast'.error = "NoBufs"
                     /\ UNCHANGED <<srcMatchShortEntry, srcMatchExtEntry>>
           /\ smLast'.op = "AddExt" =>
                IF ExtAllocated(srcMatchExtEntry, smLast'.iid) # ExtSlots
                THEN /\ smLast'.error = "None"
                     /\ OneSlotAllocated(srcMatchExtEntry, srcMatchExtEntry',
                                         smLast'.iid, ExtSlots)
                     /\ UNCHANGED srcMatchShortEntry
                ELSE /\ smLast'.error = "NoBufs"
                     /\ UNCHANGED <<srcMatchShortEntry, srcMatchExtEntry>> ]_vars

\* C10 witness: an instance's extended table is full and an Add for it was
\* refused, while its short table holds an entry.
C10_Witness ==
    /\ smLast.op = "AddExt" /\ smLast.error = "NoBufs"
    /\ ExtAllocated(srcMatchExtEntry, smLast.iid) = ExtSlots
    /\ ShortAllocated(srcMatchShortEntry, smLast.iid) # {}

\* The instance's table holds an entry added for the address in `arg`.
ShortHolds(iid, arg) == \E i \in ShortSlots : shortHeld[iid][i] = arg

ExtHolds(iid, arg) == \E i \in ExtSlots : extHeld[iid][i] = arg

\* C11: ClearEntry for an address that has no entry in the instance's table
\* returns NoAddress and leaves every table unchanged.
C11_ClearMiss ==
    [][ /\ (smLast'.op = "ClearShort" /\ smOps' = smOps + 1
             /\ ~ShortHolds(smLast'.iid, smLast'.arg)) =>
                /\ smLast'.error = "NoAddress"
                /\ UNCHANGED <<srcMatchShortEntry, srcMatchExtEntry>>
        /\ (smLast'.op = "ClearExt" /\ smOps' = smOps + 1
             /\ ~ExtHolds(smLast'.iid, smLast'.arg)) =>
                /\ smLast'.error = "NoAddress"
                /\ UNCHANGED <<srcMatchShortEntry, srcMatchExtEntry>> ]_vars

TableOps ==
    {"AddShort", "ClearShort", "ClearAllShort", "AddExt", "ClearExt", "ClearAllExt"}

\* C12: an operation for instance i leaves the tables of every other instance
\* unchanged, and a FindEntry hit for instance i is an allocated entry of
\* instance i's own table that matches the address.
C12_InstanceScoping ==
    /\ [](\A iid \in Iids :
            /\ \A a \in ShortAddrs :
                  LET e == utilsSoftSrcMatchShortFindEntry(iid, a, FALSE)
                  IN  e # -1 =>
                        /\ srcMatchShortEntry[iid][e].allocated
                        /\ srcMatchShortEntry[iid][e].checksum = ShortChecksum(iid, a)
            /\ \A a \in ExtAddrs :
                  LET e == utilsSoftSrcMatchExtFindEntry(iid, a)
                  IN  e # -1 =>
                        /\ srcMatchExtEntry[iid][e].allocated
                        /\ srcMatchExtEntry[iid][e].checksum = ExtChecksum(iid, a))
    /\ [][ (smLast'.op \in TableOps /\ smOps' = smOps + 1) =>
              \A j \in Iids \ {smLast'.iid} :
                  /\ srcMatchShortEntry'[j] = srcMatchShortEntry[j]
                  /\ srcMatchExtEntry'[j] = srcMatchExtEntry[j] ]_vars

\* C13: right after ClearAllEntries for instance i the instance's table has
\* every slot free (so capacity further adds fit), and FindEntry for i
\* returns -1 for every address (so ClearEntry would return NoAddress).
C13_ClearAllEmpties ==
    /\ smLast.op = "ClearAllShort" =>
          /\ ShortAllocated(srcMatchShortEntry, smLast.iid) = {}
          /\ \A a \in ShortAddrs :
                utilsSoftSrcMatchShortFindEntry(smLast.iid, a, FALSE) = -1
    /\ smLast.op = "ClearAllExt" =>
          /\ ExtAllocated(srcMatchExtEntry, smLast.iid) = {}
          /\ \A a \in ExtAddrs :
                utilsSoftSrcMatchExtFindEntry(smLast.iid, a) = -1

\* C23: right after a successful AddEntry, FindEntry for the same instance
\* and address returns the index of an allocated slot of that instance; right
\* after a successful ClearEntry it returns -1.
C23_AddFindClearRoundTrip ==
    /\ (smLast.op = "AddShort" /\ smLast.error = "None") =>
          \A a \in smLast.arg :
              LET e == utilsSoftSrcMatchShortFindEntry(smLast.iid, a, FALSE)
              IN  e \in ShortAllocated(srcMatchShortEntry, smLast.iid)
    /\ (smLast.op = "ClearShort" /\ smLast.error = "None") =>
          \A a \in smLast.arg :
              utilsSoftSrcMatchShortFindEntry(smLast.iid, a, FALSE) = -1
    /\ (smLast.op = "AddExt" /\ smLast.error = "None") =>
          \A a \in smLast.arg :
              LET e == utilsSoftSrcMatchExtFindEntry(smLast.iid, a)
              IN  e \in ExtAllocated(srcMatchExtEntry, smLast.iid)
    /\ (smLast.op = "ClearExt" /\ smLast.error = "None") =>
          \A a \in smLast.arg :
              utilsSoftSrcMatchExtFindEntry(smLast.iid, a) = -1

====
